---------------------------- MODULE Spec2Model ----------------------------
(***************************************************************************)
(* A model of the FBO organization classifier (classifier_core.py).        *)
(*                                                                         *)
(* Texts are real character strings and the lexicon tables are the ones of *)
(* the source, so keyword counting is the substring counting the program   *)
(* does.  Scores are exact: a float that holds a count is an integer, the  *)
(* type accumulators are kept in tenths (the 0.3 weight is 3 tenths) and a *)
(* normalized percentage is a reduced fraction [num, den].                 *)
(***************************************************************************)
EXTENDS Integers, Sequences, FiniteSets, TLC

VARIABLES
    pc,         \* position of the running call
    name,       \* classify_organization's name argument
    url,        \* classify_organization's url argument
    site,       \* the web site: path -> response, the program's environment
    base,       \* fetch_url: url without its trailing slash
    full_text,  \* fetch_url: the text accumulated so far
    probe,      \* fetch_url: index of the next suffix to try
    text,       \* classify_organization: what fetch_url returned
    rel,        \* what detect_religion returned
    typ,        \* what detect_type returned
    act,        \* what detect_activity returned
    result,     \* what classify_organization returned
    arg_text,   \* count_matches: text argument
    arg_kws,    \* count_matches: keywords argument
    arg_scores, \* normalize_scores: scores argument
    ret         \* value returned by the pure function under check

vars == <<pc, name, url, site, base, full_text, probe, text, rel, typ, act,
          result, arg_text, arg_kws, arg_scores, ret>>

-----------------------------------------------------------------------------
(* Python's str operations, on TLC's strings.                              *)

\* s[i] as a one-character string (1-based)
CharAt(s, i) == SubSeq(s, i, i)

\* `sub in s`
str_in(sub, s) ==
    \E i \in 1..(Len(s) - Len(sub) + 1) : SubSeq(s, i, i + Len(sub) - 1) = sub

\* least element of a non-empty set of integers
SetMin(S) == CHOOSE m \in S : \A k \in S : m <= k

\* the positions at or after i where sub occurs in s
Occurrences(s, sub, i) ==
    {j \in i..(Len(s) - Len(sub) + 1) : SubSeq(s, j, j + Len(sub) - 1) = sub}

\* the scan of s.count(sub) from position i: take the leftmost occurrence,
\* resume right after it
RECURSIVE CountFrom(_, _, _)
CountFrom(s, sub, i) ==
    LET occ == Occurrences(s, sub, i)
    IN  IF occ = {} THEN 0
        ELSE 1 + CountFrom(s, sub, SetMin(occ) + Len(sub))

\* s.count(sub): non-overlapping occurrences, left to right; the empty
\* string occurs len(s) + 1 times
str_count(s, sub) == IF sub = "" THEN Len(s) + 1 ELSE CountFrom(s, sub, 1)

UPPERCASE == "ABCDEFGHIJKLMNOPQRSTUVWXYZ"
LOWERCASE == "abcdefghijklmnopqrstuvwxyz"

LowerChar(c) ==
    IF \E i \in 1..Len(UPPERCASE) : CharAt(UPPERCASE, i) = c
    THEN CharAt(LOWERCASE, CHOOSE i \in 1..Len(UPPERCASE) : CharAt(UPPERCASE, i) = c)
    ELSE c

RECURSIVE LowerRange(_, _, _)
LowerRange(s, lo, hi) ==
    IF lo > hi THEN ""
    ELSE IF lo = hi THEN LowerChar(CharAt(s, lo))
    ELSE LET mid == (lo + hi) \div 2
         IN  LowerRange(s, lo, mid) \o LowerRange(s, mid + 1, hi)

\* s.lower()
str_lower(s) == LowerRange(s, 1, Len(s))

IsSpace(c) == c \in {" ", "\t", "\n"}

\* s.strip()
str_strip(s) ==
    LET keep == {i \in 1..Len(s) : ~IsSpace(CharAt(s, i))}
    IN  IF keep = {} THEN ""
        ELSE SubSeq(s, SetMin(keep), CHOOSE m \in keep : \A k \in keep : k <= m)

\* s.endswith(suffix)
str_endswith(s, suffix) ==
    Len(suffix) <= Len(s) /\ SubSeq(s, Len(s) - Len(suffix) + 1, Len(s)) = suffix

-----------------------------------------------------------------------------
(* Keyword configs.                                                        *)

RELIGION_KEYWORDS ==
    [r \in {"Islam", "Christianity", "Judaism", "Multi-faith"} |->
      CASE r = "Islam" ->
            <<"mosque", "masjid", "islamic", "muslim", "ummah",
              "zakat", "sadaqa", "sadaqah", "waqf", "ramadan",
              "eid", "qurbani", "udhiyah", "fidyah", "kaffarah">>
        [] r = "Christianity" ->
            <<"church", "parish", "diocese", "cathedral", "chapel",
              "ministry", "ministries", "christian", "catholic",
              "orthodox", "baptist", "lutheran", "pentecostal",
              "evangelical", "jesus", "christ", "gospel">>
        [] r = "Judaism" ->
            <<"synagogue", "shul", "yeshiva", "yeshivah", "temple",
              "jewish", "judaism", "tzedakah", "tzedaka", "tzedokah",
              "maaser", "ma'aser", "high holidays", "rosh hashanah",
              "yom kippur", "sukkot", "simchat torah">>
        [] r = "Multi-faith" ->
            <<"interfaith", "inter faith", "inter-faith",
              "multi-faith", "multi faith",
              "inter faith network", "multi-faith network">>]

GENERIC_FAITH_KEYWORDS ==
    <<"faith-based", "faith based", "religious organization",
      "religious non-profit", "religious nonprofit",
      "worship", "spiritual community", "congregation",
      "house of worship", "faith communities", "faith community">>

WORSHIP_PLACE_KEYWORDS ==
    <<"church", "parish", "diocese", "cathedral", "chapel",
      "mosque", "masjid", "synagogue", "shul", "temple",
      "congregation", "house of worship">>

WORSHIP_PRACTICE_KEYWORDS ==
    <<"worship service", "worship services", "sunday service",
      "mass", "liturgy", "prayer service", "daily prayers",
      "friday prayer", "jummah", "shabbat", "shabbos">>

GLOBAL_NGO_KEYWORDS ==
    <<"relief", "foundation", "international", "global",
      "aid", "charity", "humanitarian", "development",
      "mission", "missions", "ministries", "ngo", "non-profit",
      "nonprofit", "organisation", "organization", "network">>

LOCAL_COMMUNITY_KEYWORDS ==
    <<"community center", "community centre", "family services",
      "food bank", "food pantry", "soup kitchen", "shelter",
      "clinic", "school", "youth group", "local community",
      "serving the community of">>

INACTIVE_PHRASES ==
    <<"has now closed",
      "has closed",
      "ceased operations",
      "ceased to operate",
      "no longer operating",
      "no longer exists",
      "has been wound up",
      "has now been wound up",
      "this organisation has closed",
      "this organization has closed",
      "was dissolved",
      "has been dissolved",
      "has now been dissolved",
      "dissolved on">>

ARCHIVE_PHRASES ==
    <<"this website is an archive",
      "this site is an archive",
      "this site is no longer updated",
      "this website is no longer updated",
      "for historical reference only",
      "archived version of the site">>

-----------------------------------------------------------------------------
(* Helpers.                                                                *)

RECURSIVE count_loop(_, _, _, _)
count_loop(t, keywords, i, total) ==
    IF i > Len(keywords) THEN total
    ELSE count_loop(t, keywords, i + 1,
                    IF str_in(keywords[i], t)
                    THEN total + str_count(t, keywords[i])
                    ELSE total)

\* a faulty variant: the loop returns at the first keyword that occurs
RECURSIVE first_hit_loop(_, _, _)
first_hit_loop(t, keywords, i) ==
    IF i > Len(keywords) THEN 0
    ELSE IF str_in(keywords[i], t) THEN str_count(t, keywords[i])
    ELSE first_hit_loop(t, keywords, i + 1)

count_matches_first_hit(t, keywords) == first_hit_loop(t, keywords, 1)

count_matches(t, keywords) == count_loop(t, keywords, 1, 0)

(* Exact arithmetic for the float percentages: a reduced fraction with a   *)
(* positive denominator; den = 0 stands for the ZeroDivisionError that a   *)
(* division by zero raises.                                                *)

Abs(x) == IF x < 0 THEN -x ELSE x

RECURSIVE GCD(_, _)
GCD(a, b) == IF b = 0 THEN a ELSE GCD(b, a % b)

Rat(n, d) == LET g == GCD(Abs(n), d) IN [num |-> n \div g, den |-> d \div g]

\* (v / total) * 100.0
Percent(v, total) ==
    IF total = 0 THEN [num |-> v * 100, den |-> 0] ELSE Rat(v * 100, total)

RatOfInt(n) == [num |-> n, den |-> 1]

RatAdd(p, q) == Rat(p.num * q.den + q.num * p.den, p.den * q.den)

RatLeq(p, q) == p.num * q.den <= q.num * p.den

RECURSIVE SumPositive(_, _)
SumPositive(scores, keys) ==
    IF keys = {} THEN 0
    ELSE LET k == CHOOSE x \in keys : TRUE
         IN  (IF scores[k] > 0 THEN scores[k] ELSE 0)
             + SumPositive(scores, keys \ {k})

\* the guard of normalize_scores: no positive score at all
no_positive_total(total) == total <= 0

normalize_scores(scores) ==
    LET total == SumPositive(scores, DOMAIN scores)
    IN  IF no_positive_total(total)
        THEN [k \in DOMAIN scores |-> RatOfInt(0)]
        ELSE [k \in DOMAIN scores |-> Percent(scores[k], total)]

\* d.get(key, default)
dict_get(d, key, default) == IF key \in DOMAIN d THEN d[key] ELSE default

\* max(d.items(), key=lambda x: x[1])[0] over the keys in iteration order:
\* a later key replaces the best one only when strictly greater
RECURSIVE max_loop(_, _, _, _)
max_loop(order, d, i, best) ==
    IF i > Len(order) THEN best
    ELSE max_loop(order, d, i + 1,
                  IF d[order[i]] > d[best] THEN order[i] ELSE best)

\* a faulty variant: a later key replaces the best one when equal too
RECURSIVE max_last_loop(_, _, _, _)
max_last_loop(order, d, i, best) ==
    IF i > Len(order) THEN best
    ELSE max_last_loop(order, d, i + 1,
                       IF d[order[i]] >= d[best] THEN order[i] ELSE best)

max_by_value_last(order, d) == max_last_loop(order, d, 2, order[1])

max_by_value(order, d) == max_loop(order, d, 2, order[1])

\* f"{name.lower()} {text or ''}"
combined_text(t, n) == str_lower(n) \o " " \o t

-----------------------------------------------------------------------------
(* Religion detection.                                                     *)

MAIN_RELS == <<"Islam", "Christianity", "Judaism">>

\* what a detector returns: (label, scores, confidence); defaulted records
\* that the confidence is the default of norm.get, not an entry of norm
Detected(label, scores, conf, defaulted) ==
    [label |-> label, scores |-> scores, conf |-> conf, defaulted |-> defaulted]

\* (label, scores, norm.get(key, default))
Normalized(label, scores, key, default) ==
    LET norm == normalize_scores(scores)
    IN  Detected(label, scores, dict_get(norm, key, default),
                 key \notin DOMAIN norm)

\* a faulty variant: the name is searched without lower-casing it
has_multifaith_name_cased(n) ==
    \/ str_in("interfaith", n)
    \/ str_in("multi-faith", n)
    \/ str_in("multi faith", n)

\* the name says interfaith / multi-faith
has_multifaith_name(n) ==
    \/ str_in("interfaith", str_lower(n))
    \/ str_in("multi-faith", str_lower(n))
    \/ str_in("multi faith", str_lower(n))

\* a decent signal of one religion: it outweighs Multi-faith
strong_main_signal(max_main_val, multi_score) ==
    max_main_val >= 2 \/ max_main_val > multi_score

\* a faulty variant: the GenericFaith entry is not stored
without_generic_faith(scores, generic_score) == scores

\* scores["GenericFaith"] = generic_score
with_generic_faith(scores, generic_score) ==
    [k \in DOMAIN scores \cup {"GenericFaith"} |->
        IF k = "GenericFaith" THEN generic_score ELSE scores[k]]

detect_religion(t, n) ==
    LET combined == combined_text(t, n)
        scores == [r \in DOMAIN RELIGION_KEYWORDS |->
                      count_matches(combined, RELIGION_KEYWORDS[r])]
        generic_score == count_matches(combined, GENERIC_FAITH_KEYWORDS)
        max_main_rel == max_by_value(MAIN_RELS, scores)
        max_main_val == scores[max_main_rel]
        multi_score == scores["Multi-faith"]
    IN  IF max_main_val = 0 /\ multi_score = 0 /\ generic_score = 0
        THEN Detected("Other/Unknown", scores, RatOfInt(0), FALSE)
        ELSE IF has_multifaith_name(n)
        THEN Normalized("Multi-faith",
                        IF multi_score = 0
                        THEN [scores EXCEPT !["Multi-faith"] = 1]
                        ELSE scores,
                        "Multi-faith", RatOfInt(80))
        ELSE IF strong_main_signal(max_main_val, multi_score)
        THEN Normalized(max_main_rel, scores, max_main_rel, RatOfInt(0))
        ELSE IF multi_score > 0 /\ max_main_val = 0
        THEN Normalized("Multi-faith", scores, "Multi-faith", RatOfInt(0))
        ELSE IF max_main_val = 0 /\ generic_score > 0
        THEN Normalized("Other/Unknown",
                        with_generic_faith(scores, generic_score),
                        "Other/Unknown", RatOfInt(0))
        ELSE Normalized(max_main_rel, scores, max_main_rel, RatOfInt(0))

-----------------------------------------------------------------------------
(* Type (FBCore / FBOrigin / FBCommunity / Not-FB).  The accumulators are  *)
(* kept in tenths: a count c is TENTHS * c, a weighted NGO hit is          *)
(* NGO_WEIGHT tenths.                                                      *)

TENTHS == 10
NGO_WEIGHT == 3
PARISH_BONUS == 2

TYPE_ORDER == <<"FBCore", "FBOrigin", "FBCommunity", "Not-FB">>

origin_keywords ==
    <<"founded by the catholic church",
      "founded by the church",
      "founded by the methodist church",
      "founded by the presbyterian church",
      "founded by the episcopal church",
      "founded by the lutheran church",
      "founded by the anglican church",
      "jesuit university",
      "jesuit college",
      "sponsored by the church",
      "sponsored by the diocese",
      "owned by the church",
      "catholic health system",
      "christian health system",
      "faith-based hospital">>

community_keywords ==
    <<"friends of", "supporting the work of", "in partnership with synagogues",
      "in partnership with churches", "supported by congregations",
      "supported by parishes", "supported by local churches",
      "supported by mosques", "supported by the jewish community",
      "supported by the muslim community", "supported by the christian community">>

\* FBCore accumulator
core_score(combined) ==
    TENTHS * ( count_matches(combined, WORSHIP_PLACE_KEYWORDS)
             + count_matches(combined, WORSHIP_PRACTICE_KEYWORDS)
             + (IF \E w \in {"parish", "diocese", "cathedral", "chapel"} :
                       str_in(w, combined)
                THEN PARISH_BONUS ELSE 0) )

\* a faulty variant: the NGO hits are weighed in for every religion label
community_score_any_religion(combined, religion) ==
    TENTHS * ( count_matches(combined, LOCAL_COMMUNITY_KEYWORDS)
             + count_matches(combined, community_keywords) )
    + NGO_WEIGHT * count_matches(combined, GLOBAL_NGO_KEYWORDS)

\* FBCommunity accumulator
community_score(combined, religion) ==
    TENTHS * ( count_matches(combined, LOCAL_COMMUNITY_KEYWORDS)
             + count_matches(combined, community_keywords) )
    + (IF religion \in {"Christianity", "Islam", "Judaism", "Multi-faith"}
       THEN NGO_WEIGHT * count_matches(combined, GLOBAL_NGO_KEYWORDS)
       ELSE 0)

\* base Not-FB when every other accumulator is 0
not_fb_score(core, origin, community) ==
    IF core = 0 /\ origin = 0 /\ community = 0 THEN TENTHS ELSE 0

detect_type(t, n, religion) ==
    LET combined == combined_text(t, n)
        core == core_score(combined)
        origin == TENTHS * count_matches(combined, origin_keywords)
        community == community_score(combined, religion)
        scores == [k \in {"FBCore", "FBOrigin", "FBCommunity", "Not-FB"} |->
                     CASE k = "FBCore" -> core
                       [] k = "FBOrigin" -> origin
                       [] k = "FBCommunity" -> community
                       [] k = "Not-FB" -> not_fb_score(core, origin, community)]
        best_type == max_by_value(TYPE_ORDER, scores)
    IN  Normalized(best_type, scores, best_type, RatOfInt(0))

-----------------------------------------------------------------------------
(* Activity status.                                                        *)

\* [p.lower() for p in phrases]
lower_all(phrases) == [i \in DOMAIN phrases |-> str_lower(phrases[i])]

\* a faulty variant: the archive hits are left out
inactive_score_no_archive(inactive_hits, archive_hits) == inactive_hits

\* scores["Inactive"]
inactive_score(inactive_hits, archive_hits) == inactive_hits + archive_hits

\* the site is alive at all: there is some text
looks_alive(combined) == str_strip(combined) # ""

detect_activity(t, n) ==
    LET combined == combined_text(t, n)
        inactive_hits == count_matches(combined, lower_all(INACTIVE_PHRASES))
        archive_hits == count_matches(combined, lower_all(ARCHIVE_PHRASES))
        inactive == inactive_score(inactive_hits, archive_hits)
        status == IF inactive > 0 THEN "Inactive"
                  ELSE IF looks_alive(combined) THEN "Likely active"
                  ELSE "Unknown"
        scores == [k \in {"Inactive", "Likely active", "Unknown"} |->
                     IF k = "Inactive" THEN inactive
                     ELSE IF k = status THEN 1 ELSE 0]
    IN  Normalized(status, scores, status, RatOfInt(0))

-----------------------------------------------------------------------------
(* Text acquisition.  The site is the environment: each path answers with  *)
(* an HTTP status and a page, a page being its sequence of elements        *)
(* <<tag, string>>; status 0 is a request that raises (connection error,   *)
(* timeout, invalid URL).                                                  *)

HOST == "http://fbo.example"

SUFFIXES == <<"/about", "/mission", "/history", "/governance">>

Response(status, nodes) == [status |-> status, nodes |-> nodes]

\* requests.get(u) against the site
http_get(u) ==
    IF Len(u) >= Len(HOST) /\ SubSeq(u, 1, Len(HOST)) = HOST
    THEN LET path == SubSeq(u, Len(HOST) + 1, Len(u))
         IN  IF path \in {"", "/"} THEN site["/"]
             ELSE IF path \in DOMAIN site THEN site[path]
             ELSE Response(404, <<>>)
    ELSE Response(0, <<>>)

\* requests.get or resp.raise_for_status() raises
request_raises(resp) == resp.status = 0 \/ resp.status >= 400

\* the strings soup.get_text yields once script, style and noscript are
\* decomposed: each stripped, the empty ones dropped (strip=True)
RECURSIVE visible_strings(_, _)
visible_strings(nodes, i) ==
    IF i > Len(nodes) THEN <<>>
    ELSE LET str == str_strip(nodes[i][2])
         IN  (IF nodes[i][1] \in {"script", "style", "noscript"} \/ str = ""
              THEN <<>> ELSE <<str>>) \o visible_strings(nodes, i + 1)

RECURSIVE join(_, _, _)
join(sep, strs, i) ==
    IF i > Len(strs) THEN ""
    ELSE IF i = Len(strs) THEN strs[i]
    ELSE strs[i] \o sep \o join(sep, strs, i + 1)

\* soup.get_text(separator=" ", strip=True)
get_text(nodes) == join(" ", visible_strings(nodes, 1), 1)

\* a faulty variant: the exception is not caught
except_nothing(raises, value) ==
    IF raises THEN [raised |-> TRUE, value |-> ""]
    ELSE [raised |-> FALSE, value |-> value]

\* try: ... except Exception: return ""
\* raised = FALSE: _safe_get returned value; raised = TRUE: it let the
\* exception escape
except_Exception(raises, value) ==
    IF raises THEN [raised |-> FALSE, value |-> ""]
    ELSE [raised |-> FALSE, value |-> value]

_safe_get(u) ==
    LET resp == http_get(u)
    IN  except_Exception(request_raises(resp), str_lower(get_text(resp.nodes)))

\* a faulty variant: the text of a probe is appended even when empty
append_extra_always(full, extra) == full \o " " \o extra

\* if extra: full_text += " " + extra
append_extra(full, extra) ==
    IF extra # "" THEN full \o " " \o extra ELSE full

\* base: the stripped url without a trailing slash
base_of(u) == IF str_endswith(u, "/") THEN SubSeq(u, 1, Len(u) - 1) ELSE u

-----------------------------------------------------------------------------
(* The inputs the model draws from.                                        *)

NumNames == 6
NumMainPages == 6

NAMES ==
    <<"Global Relief Network",
      "Interfaith Action Council",
      "Saint Mary Parish",
      "",
      "Faith-Based Food Bank",
      "Multi Faith Youth Group",
      "Temple Shul Foundation">>

URLS == {"", HOST, " " \o HOST \o "/ "}

MAIN_PAGES ==
    <<Response(0, <<>>),
      Response(200, << <<"h1", " Welcome to our Parish, ">>,
                       <<"script", "var mosque = 1">>,
                       <<"p", "Mass every Sunday">> >>),
      Response(404, << <<"p", "Not found: this organization has closed">> >>),
      Response(200, << <<"p", "We bring together synagogues, churches and mosques">> >>),
      Response(200, << <<"style", "p {color: red}">>, <<"p", "  ">> >>),
      Response(200, << <<"p", "A Jesuit University and faith-based hospital">> >>),
      Response(200, << <<"p", "An inter-faith relief charity">> >>) >>

PROBE_PAGES ==
    [p \in {"/about", "/mission", "/history", "/governance"} |->
      CASE p = "/about" ->
            {Response(0, <<>>),
             Response(200, << <<"h1", "About">>, <<"p", "Our Mosque and Masjid">> >>)}
        [] p = "/mission" ->
            {Response(404, << <<"p", "no such page">> >>),
             Response(200, << <<"p", " The church and the chapel ">>,
                              <<"noscript", "enable scripts">> >>)}
        [] p = "/history" ->
            {Response(500, <<>>),
             Response(200, << <<"p", "Founded by the church.">>,
                              <<"p", "This organization has closed.">> >>)}
        [] p = "/governance" ->
            {Response(0, <<>>),
             Response(200, << <<"p", "This website is an archive">> >>)}]

Min(a, b) == IF a <= b THEN a ELSE b

Names == {NAMES[i] : i \in 1..Min(NumNames, Len(NAMES))}

MainPages == {MAIN_PAGES[i] : i \in 1..Min(NumMainPages, Len(MAIN_PAGES))}

Sites ==
    {s \in [{"/"} \cup DOMAIN PROBE_PAGES -> MainPages \cup UNION {PROBE_PAGES[p] : p \in DOMAIN PROBE_PAGES}] :
        /\ s["/"] \in MainPages
        /\ \A p \in DOMAIN PROBE_PAGES : s[p] \in PROBE_PAGES[p]}

-----------------------------------------------------------------------------
(* classify_organization(name, url), step by step.                         *)

NoDetection == Detected("", <<>>, RatOfInt(0), FALSE)

NoResult ==
    [type |-> "", religion |-> "", activity_status |-> "",
     confidence |-> <<>>, scores |-> <<>>, debug |-> <<>>]

Init ==
    /\ pc = "fetch_url"
    /\ name \in Names
    /\ url \in URLS
    /\ site \in Sites
    /\ base = ""
    /\ full_text = ""
    /\ probe = 0
    /\ text = ""
    /\ rel = NoDetection
    /\ typ = NoDetection
    /\ act = NoDetection
    /\ result = NoResult
    /\ arg_text = ""
    /\ arg_kws = <<>>
    /\ arg_scores = <<>>
    /\ ret = 0

\* fetch_url up to the fetch of the main page (an empty url returns "")
FetchMain ==
    /\ pc = "fetch_url"
    /\ IF url = ""
       THEN /\ text' = ""
            /\ pc' = "detect_religion"
            /\ UNCHANGED <<base, full_text, probe>>
       ELSE LET got == _safe_get(str_strip(url))
            IN  /\ base' = base_of(str_strip(url))
                /\ full_text' = got.value
                /\ probe' = 1
                /\ pc' = IF got.raised THEN "raised" ELSE "probes"
                /\ text' = text
    /\ UNCHANGED <<name, url, site, rel, typ, act, result,
                   arg_text, arg_kws, arg_scores, ret>>

\* one turn of the loop over the suffixes; after the last, fetch_url returns
FetchProbe ==
    /\ pc = "probes"
    /\ LET got == _safe_get(base \o SUFFIXES[probe])
           appended == append_extra(full_text, got.value)
       IN  /\ full_text' = appended
           /\ IF got.raised
              THEN pc' = "raised" /\ UNCHANGED <<probe, text>>
              ELSE IF probe < Len(SUFFIXES)
              THEN pc' = "probes" /\ probe' = probe + 1 /\ text' = text
              ELSE pc' = "detect_religion" /\ probe' = probe /\ text' = appended
    /\ UNCHANGED <<name, url, site, base, rel, typ, act, result,
                   arg_text, arg_kws, arg_scores, ret>>

\* a ZeroDivisionError in a detector aborts the call
Raised(d) == d.conf.den = 0

DetectReligion ==
    /\ pc = "detect_religion"
    /\ rel' = detect_religion(text, name)
    /\ pc' = IF Raised(rel') THEN "raised" ELSE "detect_type"
    /\ UNCHANGED <<name, url, site, base, full_text, probe, text, typ, act,
                   result, arg_text, arg_kws, arg_scores, ret>>

DetectType ==
    /\ pc = "detect_type"
    /\ typ' = detect_type(text, name, rel.label)
    /\ pc' = IF Raised(typ') THEN "raised" ELSE "detect_activity"
    /\ UNCHANGED <<name, url, site, base, full_text, probe, text, rel, act,
                   result, arg_text, arg_kws, arg_scores, ret>>

DetectActivity ==
    /\ pc = "detect_activity"
    /\ act' = detect_activity(text, name)
    /\ pc' = IF Raised(act') THEN "raised" ELSE "return"
    /\ UNCHANGED <<name, url, site, base, full_text, probe, text, rel, typ,
                   result, arg_text, arg_kws, arg_scores, ret>>

Return ==
    /\ pc = "return"
    /\ result' =
         [type |-> typ.label,
          religion |-> rel.label,
          activity_status |-> act.label,
          confidence |-> [type |-> typ.conf, religion |-> rel.conf,
                          activity |-> act.conf],
          scores |-> [type |-> typ.scores, religion |-> rel.scores,
                      activity |-> act.scores],
          debug |-> [fetched_text_length |-> Len(text)]]
    /\ pc' = "done"
    /\ UNCHANGED <<name, url, site, base, full_text, probe, text, rel, typ,
                   act, arg_text, arg_kws, arg_scores, ret>>

Next ==
    \/ FetchMain
    \/ FetchProbe
    \/ DetectReligion
    \/ DetectType
    \/ DetectActivity
    \/ Return

Spec == Init /\ [][Next]_vars

-----------------------------------------------------------------------------
(* count_matches on its own: texts and keywords over a two-letter alphabet, *)
(* short enough that keywords overlap, repeat and contain one another.      *)

MaxTextLen == 3
MaxKeywords == 2

ALPHABET == {"a", "b"}

KEYWORD_POOL == {"", "a", "b", "aa", "ab"}

RECURSIVE StringsUpTo(_)
StringsUpTo(n) ==
    IF n = 0 THEN {""}
    ELSE LET shorter == StringsUpTo(n - 1)
         IN  shorter \cup {str \o c : str \in shorter, c \in ALPHABET}

KeywordLists == UNION {[1..n -> KEYWORD_POOL] : n \in 0..MaxKeywords}

InitCount ==
    /\ pc = "count_matches"
    /\ arg_text \in StringsUpTo(MaxTextLen)
    /\ arg_kws \in KeywordLists
    /\ arg_scores = <<>>
    /\ ret = 0
    /\ name = "" /\ url = "" /\ site = <<>> /\ base = "" /\ full_text = ""
    /\ probe = 0 /\ text = ""
    /\ rel = NoDetection /\ typ = NoDetection /\ act = NoDetection
    /\ result = NoResult

CountMatches ==
    /\ pc = "count_matches"
    /\ ret' = count_matches(arg_text, arg_kws)
    /\ pc' = "counted"
    /\ UNCHANGED <<name, url, site, base, full_text, probe, text, rel, typ,
                   act, result, arg_text, arg_kws, arg_scores>>

SpecCount == InitCount /\ [][CountMatches]_vars

-----------------------------------------------------------------------------
(* normalize_scores on its own: score maps with positive, zero and         *)
(* negative values.                                                        *)

MaxScore == 2

SCORE_KEYS == {"Inactive", "Likely active", "Unknown"}

ScoreMaps == UNION {[K -> (-MaxScore)..MaxScore] : K \in SUBSET SCORE_KEYS}

InitNormalize ==
    /\ pc = "normalize_scores"
    /\ arg_scores \in ScoreMaps
    /\ arg_text = ""
    /\ arg_kws = <<>>
    /\ ret = <<>>
    /\ name = "" /\ url = "" /\ site = <<>> /\ base = "" /\ full_text = ""
    /\ probe = 0 /\ text = ""
    /\ rel = NoDetection /\ typ = NoDetection /\ act = NoDetection
    /\ result = NoResult

NormalizeScores ==
    /\ pc = "normalize_scores"
    /\ ret' = normalize_scores(arg_scores)
    /\ pc' = "normalized"
    /\ UNCHANGED <<name, url, site, base, full_text, probe, text, rel, typ,
                   act, result, arg_text, arg_kws, arg_scores>>

SpecNormalize == InitNormalize /\ [][NormalizeScores]_vars

-----------------------------------------------------------------------------
(* Properties.                                                             *)

\* what the detectors are given as combined text in the running call
Combined == str_lower(name) \o " " \o text

\* the organization name carries an interfaith / multi-faith marker
NameHasMarker ==
    \E m \in {"interfaith", "multi-faith", "multi faith"} : str_in(m, str_lower(name))

\* some phrase of the list occurs in the string
AnyPhraseIn(phrases, str) == \E i \in DOMAIN phrases : str_in(phrases[i], str)

RECURSIVE SumOver(_, _)
SumOver(f, keys) ==
    IF keys = {} THEN 0
    ELSE LET k == CHOOSE x \in keys : TRUE IN f[k] + SumOver(f, keys \ {k})

RECURSIVE RatSumOver(_, _)
RatSumOver(f, keys) ==
    IF keys = {} THEN RatOfInt(0)
    ELSE LET k == CHOOSE x \in keys : TRUE
         IN  RatAdd(f[k], RatSumOver(f, keys \ {k}))

\* the share of key among the positive scores, as a percentage
ShareOf(scores, key) ==
    Rat(100 * scores[key],
        SumOver(scores, {k \in DOMAIN scores : scores[k] > 0}))

\* the GET of the main page fails / the GET of probe p fails
MainFails == site["/"].status # 200
ProbeFails(p) == site[p].status # 200

\* the lower-cased visible text of the page at path p
PageText(p) == str_lower(get_text(site[p].nodes))

\* what probe p adds to the fetched text: its text after a space, or nothing
ProbePart(p) ==
    IF ProbeFails(p) \/ PageText(p) = "" THEN "" ELSE " " \o PageText(p)

ProbeParts ==
    ProbePart("/about") \o ProbePart("/mission") \o ProbePart("/history")
        \o ProbePart("/governance")

\* C1 as stated: fetch_url returns "" whenever the GET of the main page
\* fails, whatever the four probes do.
C1_EmptyWhenMainFails ==
    (pc = "detect_religion" /\ url # "" /\ MainFails) => text = ""

\* C1 amended: when the GET of the main page fails, fetch_url returns the
\* texts of the probes that succeeded, each after a space, in the order
\* /about, /mission, /history, /governance; a failed probe contributes
\* nothing, so the result is "" when every probe fails too.
C1_ProbesOnlyWhenMainFails ==
    (pc = "detect_religion" /\ url # "" /\ MainFails) =>
        /\ text = ProbeParts
        /\ (\A p \in DOMAIN PROBE_PAGES : ProbeFails(p)) => text = ""

C1_Witness ==
    /\ pc = "detect_religion" /\ url # "" /\ MainFails
    /\ ProbeFails("/about") /\ ~ProbeFails("/mission")
    /\ ProbeFails("/history") /\ ~ProbeFails("/governance")
    /\ text = " the church and the chapel this website is an archive"

\* C2: normalize_scores keeps the keys; with a positive input the outputs
\* sum to 100 and each is max(value, 0) / total * 100, total the sum of the
\* positive values; with no positive input every output is 0.
C2_NormalizeClampsAndSumsTo100 ==
    pc = "normalized" =>
        LET positive == {k \in DOMAIN arg_scores : arg_scores[k] > 0}
            total == SumOver(arg_scores, positive)
        IN  /\ DOMAIN ret = DOMAIN arg_scores
            /\ positive # {} =>
                 /\ RatSumOver(ret, DOMAIN ret) = RatOfInt(100)
                 /\ \A k \in DOMAIN ret :
                       ret[k] = Rat(100 * (IF arg_scores[k] > 0 THEN arg_scores[k] ELSE 0),
                                    total)
            /\ positive = {} => \A k \in DOMAIN ret : ret[k] = RatOfInt(0)

\* C3: with no text acquired and a non-empty name holding no inactive or
\* archive phrase, detect_activity answers Unknown.
C3_UnknownWithoutText ==
    ( /\ pc = "return"
      /\ text = ""
      /\ name # ""
      /\ ~AnyPhraseIn(INACTIVE_PHRASES, Combined)
      /\ ~AnyPhraseIn(ARCHIVE_PHRASES, Combined) )
    => act.label = "Unknown"

\* C4: a combined text holding an inactive or an archive phrase is Inactive
\* with confidence 100, whatever else it holds; and always exactly one of the
\* three activity accumulators is nonzero, it is the returned label, and the
\* confidence is 100.
C4_InactiveDominates ==
    pc = "return" =>
        /\ (AnyPhraseIn(INACTIVE_PHRASES, Combined) \/ AnyPhraseIn(ARCHIVE_PHRASES, Combined))
              => (act.label = "Inactive" /\ act.conf = RatOfInt(100))
        /\ Cardinality({k \in DOMAIN act.scores : act.scores[k] # 0}) = 1
        /\ act.label \in DOMAIN act.scores
        /\ act.scores[act.label] # 0
        /\ act.conf = RatOfInt(100)

C4_Witness ==
    /\ pc = "return"
    /\ AnyPhraseIn(ARCHIVE_PHRASES, Combined)
    /\ ~AnyPhraseIn(INACTIVE_PHRASES, Combined)
    /\ rel.label = "Islam"
    /\ act.label = "Inactive"
    /\ act.scores["Inactive"] = 1

\* C5: a name with an interfaith / multi-faith marker is Multi-faith for
\* every text, whatever the main religions count; the confidence is the
\* normalized share of the Multi-faith score, taken from the normalized map
\* (never the 80.0 default) and strictly positive.
C5_MarkerForcesMultiFaith ==
    (pc = "detect_type" /\ NameHasMarker) =>
        /\ rel.label = "Multi-faith"
        /\ ~rel.defaulted
        /\ rel.conf = ShareOf(rel.scores, "Multi-faith")
        /\ rel.conf.num > 0 /\ rel.conf.den > 0

C5_Witness ==
    /\ pc = "detect_type" /\ NameHasMarker
    /\ rel.scores["Christianity"] >= 2
    /\ rel.scores["Christianity"] > rel.scores["Multi-faith"]
    /\ rel.label = "Multi-faith"

\* the main religion with the highest score, the first of them in the order
\* Islam, Christianity, Judaism
FirstTopMain(scores) ==
    IF scores["Islam"] >= scores["Christianity"] /\ scores["Islam"] >= scores["Judaism"]
    THEN "Islam"
    ELSE IF scores["Christianity"] >= scores["Judaism"] THEN "Christianity"
    ELSE "Judaism"

\* C6: without a marker in the name, a top main-religion score that is >= 2
\* or above the Multi-faith score wins; among equal top scores the first of
\* Islam, Christianity, Judaism; the confidence is its normalized share.
C6_TopMainReligionFirstWins ==
    LET top == FirstTopMain(rel.scores)
    IN  ( /\ pc = "detect_type"
          /\ ~NameHasMarker
          /\ \/ rel.scores[top] >= 2
             \/ rel.scores[top] > rel.scores["Multi-faith"] )
        => /\ rel.label = top
           /\ rel.conf = ShareOf(rel.scores, top)

C6_Witness ==
    /\ pc = "detect_type" /\ ~NameHasMarker
    /\ rel.scores["Islam"] = 2 /\ rel.scores["Christianity"] = 2
    /\ rel.scores["Judaism"] < 2
    /\ rel.label = "Islam"

\* the first accumulator, in the order FBCore, FBOrigin, FBCommunity, Not-FB,
\* that attains the maximum
FirstTopType(scores) ==
    CHOOSE i \in 1..Len(TYPE_ORDER) :
        /\ \A j \in 1..Len(TYPE_ORDER) : scores[TYPE_ORDER[j]] <= scores[TYPE_ORDER[i]]
        /\ \A j \in 1..(i - 1) : scores[TYPE_ORDER[j]] < scores[TYPE_ORDER[i]]

\* C7: detect_type returns the first accumulator that attains the maximum;
\* Not-FB is 1.0 and returned with confidence 100 exactly when the other
\* three are 0, and is 0.0 and not returned otherwise; for a religion outside
\* Christianity, Islam, Judaism, Multi-faith the global-NGO hits add nothing
\* to FBCommunity, so only such hits give Not-FB.
C7_FirstMaximumAndNotFB ==
    pc = "detect_activity" =>
        LET sc == typ.scores
            othersZero == sc["FBCore"] = 0 /\ sc["FBOrigin"] = 0 /\ sc["FBCommunity"] = 0
        IN  /\ typ.label = TYPE_ORDER[FirstTopType(sc)]
            /\ othersZero => /\ sc["Not-FB"] = TENTHS
                             /\ typ.label = "Not-FB"
                             /\ typ.conf = RatOfInt(100)
            /\ ~othersZero => sc["Not-FB"] = 0 /\ typ.label # "Not-FB"
            /\ rel.label \notin {"Christianity", "Islam", "Judaism", "Multi-faith"} =>
                 sc["FBCommunity"] =
                    TENTHS * ( count_matches(Combined, LOCAL_COMMUNITY_KEYWORDS)
                             + count_matches(Combined, community_keywords) )

C7_Witness ==
    /\ pc = "detect_activity"
    /\ name = "Global Relief Network"
    /\ count_matches(Combined, GLOBAL_NGO_KEYWORDS) = 3
    /\ rel.label = "Other/Unknown"
    /\ typ.label = "Not-FB"
    /\ typ.scores["FBCommunity"] = 0

\* every one of the five page requests fails
EveryRequestFails == MainFails /\ \A p \in DOMAIN PROBE_PAGES : ProbeFails(p)

IsPercentage(c) == c.den > 0 /\ RatLeq(RatOfInt(0), c) /\ RatLeq(c, RatOfInt(100))

\* C8: whatever the name and whichever requests fail, classify_organization
\* goes on to return a record: the labels are of the three label sets, each
\* confidence is present and within [0, 100], and debug.fetched_text_length is
\* the length of the acquired text, 0 when every request failed.
C8_AlwaysAResult ==
    /\ pc \in {"fetch_url", "probes", "detect_religion", "detect_type",
               "detect_activity", "return", "done"}
    /\ pc = "done" =>
        /\ result.type \in {"FBCore", "FBOrigin", "FBCommunity", "Not-FB"}
        /\ result.religion \in {"Islam", "Christianity", "Judaism", "Multi-faith",
                                "Other/Unknown"}
        /\ result.activity_status \in {"Inactive", "Likely active", "Unknown"}
        /\ DOMAIN result.confidence = {"type", "religion", "activity"}
        /\ \A d \in DOMAIN result.confidence : IsPercentage(result.confidence[d])
        /\ result.debug.fetched_text_length = Len(text)
        /\ EveryRequestFails => result.debug.fetched_text_length = 0

C8_Witness ==
    /\ pc = "done" /\ url # "" /\ EveryRequestFails
    /\ site["/"].status = 0 /\ site["/history"].status = 500
    /\ name = "Saint Mary Parish"
    /\ result.type = "FBCore"
    /\ result.debug.fetched_text_length = 0

\* C9 as stated: count_matches is >= 0, is 0 on the empty text for every
\* keyword list, and does not depend on the order of the keywords.
C9_CountMatches ==
    pc = "counted" =>
        /\ ret >= 0
        /\ arg_text = "" => ret = 0
        /\ \A p \in Permutations(DOMAIN arg_kws) :
              count_matches(arg_text, [i \in DOMAIN arg_kws |-> arg_kws[p[i]]]) = ret

\* C9 amended: count_matches is >= 0 and does not depend on the order of the
\* keywords; on the empty text it is the number of empty keywords in the
\* list, so 0 for every list of non-empty keywords.
C9_CountMatchesNonEmptyKeywords ==
    pc = "counted" =>
        /\ ret >= 0
        /\ arg_text = "" => ret = Cardinality({i \in DOMAIN arg_kws : arg_kws[i] = ""})
        /\ \A p \in Permutations(DOMAIN arg_kws) :
              count_matches(arg_text, [i \in DOMAIN arg_kws |-> arg_kws[p[i]]]) = ret

C9_Witness ==
    /\ pc = "counted"
    /\ arg_text = "aab"
    /\ arg_kws = <<"a", "ab">>
    /\ ret = 3

\* C10: without a marker in the name and with the three main religions and
\* Multi-faith all at 0, the label is Other/Unknown with confidence 0.0; a
\* generic-faith count > 0 is carried in the raw scores under GenericFaith,
\* and with a generic-faith count of 0 there is no such key.
C10_GenericFaithOnly ==
    LET generic == count_matches(Combined, GENERIC_FAITH_KEYWORDS)
    IN  ( /\ pc = "detect_type"
          /\ ~NameHasMarker
          /\ \A r \in {"Islam", "Christianity", "Judaism", "Multi-faith"} :
                rel.scores[r] = 0 )
        => /\ rel.label = "Other/Unknown"
           /\ rel.conf = RatOfInt(0)
           /\ generic > 0 => /\ "GenericFaith" \in DOMAIN rel.scores
                             /\ rel.scores["GenericFaith"] = generic
           /\ generic = 0 => "GenericFaith" \notin DOMAIN rel.scores

C10_Witness ==
    /\ pc = "detect_type"
    /\ name = "Faith-Based Food Bank"
    /\ text = ""
    /\ rel.label = "Other/Unknown"
    /\ rel.conf = RatOfInt(0)
    /\ rel.scores = [r \in {"Islam", "Christianity", "Judaism", "Multi-faith",
                            "GenericFaith"} |-> IF r = "GenericFaith" THEN 1 ELSE 0]

=============================================================================
